---------------------------- MODULE Spec2Model ----------------------------
(***************************************************************************)
(* The "books" services of exercise-3: the POST service, the DELETE        *)
(* service and the frontend service, three processes that share one        *)
(* MongoDB collection ("exercise-1"."information").                        *)
(*                                                                         *)
(* A stored document is a function from BSON element names to values.      *)
(* The Go driver marshals a BookStore struct under lower-cased field names *)
(* (bookname, bookauthor, ...) and the tagged "_id"; the PUT handler's     *)
(* $set names its elements "BookName", "BookAuthor", ... .  BSON element   *)
(* names are case sensitive, so both spellings are kept apart here.        *)
(*                                                                         *)
(* The database is taken to be reachable: storage errors are not modelled. *)
(***************************************************************************)
EXTENDS Integers, Sequences, FiniteSets, TLC

(***************************************************************************)
(* Bounds of the model.                                                    *)
(***************************************************************************)
\* process starts (first starts and restarts) over all services
MaxStarts == 2
\* POST, PUT and DELETE requests handled over all services
MaxRequests == 1
\* ObjectIDs 1..MaxIdInput are offered as request identifiers
MaxIdInput == 4
MaxInflight == 2

Services == {"post", "delete", "frontend"}

(***************************************************************************)
(* Program constants.                                                      *)
(***************************************************************************)
StatusOK == 200
StatusNotModified == 304
StatusBadRequest == 400
\* an ObjectID is 12 bytes: 24 hexadecimal digits
HexLen == 24
\* the zero value of primitive.ObjectID
NilObjectID == 0

\* The author of the first seed record as the source files spell it: the
\* DELETE service and the frontend hold the UTF-8 bytes C3 A9 for the
\* accented letter, the POST service holds the bytes C3 83 C2 A9.
AuthorUtf8 == "Jos<C3A9> Eustasio Rivera"
AuthorMojibake == "Jos<C383C2A9> Eustasio Rivera"

(***************************************************************************)
(* ObjectID <-> hexadecimal string.  A string that is parsed is a sequence *)
(* of characters.                                                          *)
(***************************************************************************)
HexChars == <<"0","1","2","3","4","5","6","7","8","9","a","b","c","d","e","f">>

RECURSIVE HexDigits(_, _)
HexDigits(n, k) ==
    IF k = 0 THEN <<>>
    ELSE Append(HexDigits(n \div 16, k - 1), HexChars[(n % 16) + 1])

\* ObjectID.Hex()
Hex(id) == HexDigits(id, HexLen)

IsHexChar(c) == \E i \in 1..Len(HexChars) : HexChars[i] = c

HexVal(c) == (CHOOSE i \in 1..Len(HexChars) : HexChars[i] = c) - 1

RECURSIVE HexValue(_)
HexValue(s) ==
    IF s = <<>> THEN 0
    ELSE HexValue(SubSeq(s, 1, Len(s) - 1)) * 16 + HexVal(s[Len(s)])

\* primitive.ObjectIDFromHex: the ObjectID and whether an error is returned;
\* on an error the ObjectID is the zero value.
ObjectIDFromHex(s) ==
    IF Len(s) # HexLen \/ \E i \in 1..Len(s) : ~IsHexChar(s[i])
    THEN [id |-> NilObjectID, err |-> TRUE]
    ELSE [id |-> HexValue(s), err |-> FALSE]

(***************************************************************************)
(* BSON documents.                                                         *)
(***************************************************************************)
\* The spelling of the element names stored documents can carry.
Spell(k) ==
    CASE k = "_id" -> <<"_","i","d">>
      [] k = "bookname" -> <<"b","o","o","k","n","a","m","e">>
      [] k = "bookauthor" -> <<"b","o","o","k","a","u","t","h","o","r">>
      [] k = "bookisbn" -> <<"b","o","o","k","i","s","b","n">>
      [] k = "bookpages" -> <<"b","o","o","k","p","a","g","e","s">>
      [] k = "bookyear" -> <<"b","o","o","k","y","e","a","r">>
      [] k = "BookName" -> <<"B","o","o","k","N","a","m","e">>
      [] k = "BookAuthor" -> <<"B","o","o","k","A","u","t","h","o","r">>
      [] k = "BookISBN" -> <<"B","o","o","k","I","S","B","N">>
      [] k = "BookPages" -> <<"B","o","o","k","P","a","g","e","s">>
      [] k = "BookYear" -> <<"B","o","o","k","Y","e","a","r">>

\* strings.ToLower on those names
ToLower(k) ==
    CASE k = "BookName" -> "bookname"
      [] k = "BookAuthor" -> "bookauthor"
      [] k = "BookISBN" -> "bookisbn"
      [] k = "BookPages" -> "bookpages"
      [] k = "BookYear" -> "bookyear"
      [] OTHER -> k

\* The BookStore struct as the driver marshals it: lower-cased field names,
\* and "_id" left out when it is the zero value (omitempty).
Marshal(b) ==
    LET keys == {"bookname", "bookauthor", "bookisbn", "bookpages", "bookyear"}
                \cup (IF b.ID = NilObjectID THEN {} ELSE {"_id"})
    IN [k \in keys |->
            CASE k = "_id" -> b.ID
              [] k = "bookname" -> b.BookName
              [] k = "bookauthor" -> b.BookAuthor
              [] k = "bookisbn" -> b.BookISBN
              [] k = "bookpages" -> b.BookPages
              [] k = "bookyear" -> b.BookYear]

\* One struct field read back from a document.  The decoder walks the
\* elements in document order and looks each name up as it is and then
\* lower-cased, so of several elements that lower-case to the field's name
\* the last one wins.  The lower-cased elements of a document date from its
\* insertion; an element of another case was appended by a later $set.
Elem(d, f, zero) ==
    LET later == {k \in DOMAIN d : k # f /\ ToLower(k) = f}
    IN IF later # {} THEN d[CHOOSE k \in later : TRUE]
       ELSE IF f \in DOMAIN d THEN d[f]
       ELSE zero

\* A document decoded into a BookStore struct (cursor.All).
Decode(d) ==
    [ID         |-> d["_id"],
     BookName   |-> Elem(d, "bookname", ""),
     BookAuthor |-> Elem(d, "bookauthor", ""),
     BookISBN   |-> Elem(d, "bookisbn", ""),
     BookPages  |-> Elem(d, "bookpages", 0),
     BookYear   |-> Elem(d, "bookyear", 0)]

\* A query filter of equalities: every element of the filter is an element
\* of the document with that value.  The empty filter matches everything.
Matches(d, f) == \A k \in DOMAIN f : k \in DOMAIN d /\ d[k] = f[k]

Find(c, f) == {d \in c : Matches(d, f)}

\* The filter bson.D{{Key: key}}: one element whose value is null.  A null
\* equality matches the documents in which the element is null or missing;
\* no stored element is ever null.
MatchesNull(d, key) == ~ \E k \in DOMAIN d : Spell(k) = key

\* The document InsertOne stores: the driver adds a fresh "_id" to a document
\* that has none.
WithId(doc, id) ==
    IF "_id" \in DOMAIN doc THEN doc
    ELSE [k \in DOMAIN doc \cup {"_id"} |-> IF k = "_id" THEN id ELSE doc[k]]

\* $set: the named elements are overwritten or added.
ApplySet(d, set) ==
    [k \in DOMAIN d \cup DOMAIN set |-> IF k \in DOMAIN set THEN set[k] ELSE d[k]]

\* UpdateOne as an upsert: without a match the update is stored as a new document
UpdateOneUpsert(c, id, set) ==
    IF \E d \in c : Matches(d, [k \in {"_id"} |-> id])
    THEN {IF Matches(d, [k \in {"_id"} |-> id]) THEN ApplySet(d, set) ELSE d : d \in c}
    ELSE c \cup {ApplySet([k \in {"_id"} |-> id], set)}

\* UpdateOne with the filter {"_id": id}
UpdateOne(c, id, set) ==
    {IF Matches(d, [k \in {"_id"} |-> id]) THEN ApplySet(d, set) ELSE d : d \in c}

(***************************************************************************)
(* The seed records (startData of prepareData), one copy per source file.  *)
(***************************************************************************)
StartDataPost ==
    << [ID |-> NilObjectID, BookName |-> "The Vortex", BookAuthor |-> AuthorMojibake,
        BookISBN |-> "958-30-0804-4", BookPages |-> 292, BookYear |-> 1924],
       [ID |-> NilObjectID, BookName |-> "Frankenstein", BookAuthor |-> "Mary Shelley",
        BookISBN |-> "978-3-649-64609-9", BookPages |-> 280, BookYear |-> 1818],
       [ID |-> NilObjectID, BookName |-> "The Black Cat", BookAuthor |-> "Edgar Allan Poe",
        BookISBN |-> "978-3-99168-238-7", BookPages |-> 280, BookYear |-> 1843] >>

StartDataDelete ==
    << [ID |-> NilObjectID, BookName |-> "The Vortex", BookAuthor |-> AuthorUtf8,
        BookISBN |-> "958-30-0804-4", BookPages |-> 292, BookYear |-> 1924],
       [ID |-> NilObjectID, BookName |-> "Frankenstein", BookAuthor |-> "Mary Shelley",
        BookISBN |-> "978-3-649-64609-9", BookPages |-> 280, BookYear |-> 1818],
       [ID |-> NilObjectID, BookName |-> "The Black Cat", BookAuthor |-> "Edgar Allan Poe",
        BookISBN |-> "978-3-99168-238-7", BookPages |-> 280, BookYear |-> 1843] >>

StartDataFrontend ==
    << [ID |-> NilObjectID, BookName |-> "The Vortex", BookAuthor |-> AuthorUtf8,
        BookISBN |-> "958-30-0804-4", BookPages |-> 292, BookYear |-> 1924],
       [ID |-> NilObjectID, BookName |-> "Frankenstein", BookAuthor |-> "Mary Shelley",
        BookISBN |-> "978-3-649-64609-9", BookPages |-> 280, BookYear |-> 1818],
       [ID |-> NilObjectID, BookName |-> "The Black Cat", BookAuthor |-> "Edgar Allan Poe",
        BookISBN |-> "978-3-99168-238-7", BookPages |-> 280, BookYear |-> 1843] >>

StartData(s) ==
    CASE s = "post" -> StartDataPost
      [] s = "delete" -> StartDataDelete
      [] s = "frontend" -> StartDataFrontend

(***************************************************************************)
(* Inputs: the environment of a process start and the requests.            *)
(***************************************************************************)
\* DATABASE_URI in the environment of a starting process: unset or set
EnvValues == {"", "mongodb://db"}

\* Request bodies that bind to a PostBookDTO: a second book of an author
\* already stored, the fields of the second seed record, an author alone,
\* and a body without fields.
BookNovel ==
    [Name |-> "The Last Man", Author |-> "Mary Shelley", Pages |-> 479,
     Year |-> 1826, Isbn |-> ""]
BookSeedCopy ==
    [Name |-> "Frankenstein", Author |-> "Mary Shelley", Pages |-> 280,
     Year |-> 1818, Isbn |-> "978-3-649-64609-9"]
BookAuthorOnly ==
    [Name |-> "", Author |-> "Mary Shelley", Pages |-> 0, Year |-> 0, Isbn |-> ""]
BookEmpty ==
    [Name |-> "", Author |-> "", Pages |-> 0, Year |-> 0, Isbn |-> ""]

PostBodies == {BookNovel, BookSeedCopy, BookAuthorOnly, BookEmpty}

\* Identifiers a request can carry: the hexadecimal form of an ObjectID, a
\* string that is no ObjectID, and a string that is an element name.
NotHex == <<"a", "b", "c">>
IdInputs == {Hex(n) : n \in 1..MaxIdInput} \cup {NotHex, Spell("bookname")}

\* Request bodies that bind to a BookDTO
PutBodies ==
    {[Id |-> i, Name |-> b.Name, Author |-> b.Author, Pages |-> b.Pages,
      Year |-> b.Year, Isbn |-> b.Isbn] : i \in IdInputs, b \in {BookNovel, BookEmpty}}

NoBody == BookEmpty
NoRequest == [svc |-> "", method |-> "", id |-> <<>>, body |-> NoBody, bound |-> TRUE]
NoResponse == [status |-> 0, msg |-> "", body |-> NoBody, printed |-> <<>>, list |-> {}]

\* The request slots of the POST service, and a slot no request has taken.
\* phase: "idle", "lookedUp" (FindOne has returned) or "done"; boot: the run of
\* the process that accepted the request; seen: the ObjectIDs in the
\* collection when FindOne ran; id: the ObjectID inserted.
Slots == 1..MaxInflight
NoInflight == [phase |-> "idle", boot |-> 0, body |-> NoBody, found |-> FALSE,
               seen |-> {}, id |-> NilObjectID, resp |-> NoResponse]

(***************************************************************************)
(* State.                                                                  *)
(***************************************************************************)
VARIABLES
    coll,        \* the documents of the shared collection
    collExists,  \* whether the collection has been created
    nextId,      \* the ObjectIDs 1..nextId-1 have been generated
    pc,          \* per service: "down", "find", "decide", "serving", "exited"
    seedIdx,     \* per service: the seed record prepareData is at
    results,     \* per service: len(results) of the last probe
    exitBy,      \* per service: "none", "env" (os.Exit(1)), "fatal" (log.Fatal)
    connected,   \* per service: the process opened a database connection
    uri,         \* per service: DATABASE_URI at the last start
    boots,       \* per service: the runs of prepareData begun
    inserted,    \* per service: the inserts of its last run of prepareData
    starts,      \* process starts so far
    requests,    \* POST, PUT and DELETE requests handled so far
    req,         \* the last request handled
    resp,        \* the response to it, as handed to c.JSON
    inflight     \* per request slot: a POST of the POST service between its steps

vars == <<coll, collExists, nextId, pc, seedIdx, results, exitBy, connected, uri,
          boots, inserted, starts, requests, req, resp, inflight>>

bootVars == <<pc, seedIdx, results, exitBy, connected, uri, boots, inserted, starts>>

Init ==
    /\ coll = {}
    /\ collExists = FALSE
    /\ nextId = 1
    /\ pc = [s \in Services |-> "down"]
    /\ seedIdx = [s \in Services |-> 1]
    /\ results = [s \in Services |-> 0]
    /\ exitBy = [s \in Services |-> "none"]
    /\ connected = [s \in Services |-> FALSE]
    /\ uri = [s \in Services |-> ""]
    /\ boots = [s \in Services |-> 0]
    /\ inserted = [s \in Services |-> 0]
    /\ starts = 0
    /\ requests = 0
    /\ req = NoRequest
    /\ resp = NoResponse
    /\ inflight = [i \in Slots |-> NoInflight]

(***************************************************************************)
(* Process start: main up to prepareData.                                  *)
(***************************************************************************)
\* Whether main gets past its check of DATABASE_URI.
PostHasUri(e) == e # ""
DeleteHasUri(e) == e # ""
\* The frontend does not read the environment: its URI is a literal.
FrontendHasUri(e) == TRUE

HasUri(s, e) ==
    CASE s = "post" -> PostHasUri(e)
      [] s = "delete" -> DeleteHasUri(e)
      [] s = "frontend" -> FrontendHasUri(e)

Booting(s) == pc[s] \in {"find", "decide"}

\* A process of service s is started (a first start or a restart) with
\* DATABASE_URI = e: main up to the call of prepareData.
Launch(s, e) ==
    /\ starts < MaxStarts
    /\ starts' = starts + 1
    /\ uri' = [uri EXCEPT ![s] = e]
    /\ IF HasUri(s, e)
       THEN /\ pc' = [pc EXCEPT ![s] = "find"]
            /\ exitBy' = [exitBy EXCEPT ![s] = "none"]
            /\ connected' = [connected EXCEPT ![s] = TRUE]
            /\ collExists' = TRUE
            /\ seedIdx' = [seedIdx EXCEPT ![s] = 1]
            /\ boots' = [boots EXCEPT ![s] = @ + 1]
            /\ inserted' = [inserted EXCEPT ![s] = 0]
       ELSE /\ pc' = [pc EXCEPT ![s] = "exited"]
            /\ exitBy' = [exitBy EXCEPT ![s] = "env"]
            /\ connected' = [connected EXCEPT ![s] = FALSE]
            /\ UNCHANGED <<collExists, seedIdx, boots, inserted>>
    /\ UNCHANGED <<coll, nextId, results, requests, req, resp, inflight>>

\* A start while no bootstrap is running: the services start one after the
\* other.
Start(s, e) ==
    /\ \A t \in Services : ~Booting(t)
    /\ Launch(s, e)

\* A start while other services may be in their bootstrap.
StartConcurrent(s, e) ==
    /\ ~Booting(s)
    /\ Launch(s, e)

(***************************************************************************)
(* prepareData: per seed record a probe (Find) and what follows from it.   *)
(***************************************************************************)
\* TooMany that takes any match for too many
TooManyAny(n) == n > 0

\* TooMany with the threshold off by one
TooManyOffByOne(n) == n > 2

\* len(results) > 1
TooMany(n) == n > 1

\* NoneFound that takes a single match for none
NoneFoundOrOne(n) == n <= 1

\* len(results) == 0
NoneFound(n) == n = 0

\* coll.Find(ctx, book) and cursor.All
BootFind(s) ==
    /\ pc[s] = "find"
    /\ results' = [results EXCEPT
                     ![s] = Cardinality(Find(coll, Marshal(StartData(s)[seedIdx[s]])))]
    /\ pc' = [pc EXCEPT ![s] = "decide"]
    /\ UNCHANGED <<coll, collExists, nextId, seedIdx, exitBy, connected, uri, boots,
                   inserted, starts, requests, req, resp, inflight>>

\* The branches on len(results), and the step to the next seed record.
BootDecide(s) ==
    /\ pc[s] = "decide"
    /\ IF TooMany(results[s])
       THEN /\ pc' = [pc EXCEPT ![s] = "exited"]
            /\ exitBy' = [exitBy EXCEPT ![s] = "fatal"]
            /\ UNCHANGED <<coll, nextId, inserted, seedIdx>>
       ELSE /\ IF NoneFound(results[s])
               THEN /\ coll' = coll \cup {WithId(Marshal(StartData(s)[seedIdx[s]]), nextId)}
                    /\ nextId' = nextId + 1
                    /\ inserted' = [inserted EXCEPT ![s] = @ + 1]
               ELSE UNCHANGED <<coll, nextId, inserted>>
            /\ IF seedIdx[s] < Len(StartData(s))
               THEN /\ seedIdx' = [seedIdx EXCEPT ![s] = @ + 1]
                    /\ pc' = [pc EXCEPT ![s] = "find"]
               ELSE /\ pc' = [pc EXCEPT ![s] = "serving"]
                    /\ UNCHANGED seedIdx
            /\ UNCHANGED exitBy
    /\ UNCHANGED <<collExists, results, connected, uri, boots, starts, requests, req, resp, inflight>>

(***************************************************************************)
(* The request handlers.  A handler runs in a process that is serving.     *)
(***************************************************************************)
Handle(s, method, id, body, bound) ==
    /\ pc[s] = "serving"
    /\ requests < MaxRequests
    /\ requests' = requests + 1
    /\ req' = [svc |-> s, method |-> method, id |-> id, body |-> body, bound |-> bound]

\* The BookStore a handler builds from a bound PostBookDTO.
ToBookStore(book) ==
    [ID |-> NilObjectID, BookName |-> book.Name, BookAuthor |-> book.Author,
     BookISBN |-> book.Isbn, BookPages |-> book.Pages, BookYear |-> book.Year]

\* The BookDTO a POST handler answers with.
ToBookDTO(id, book) ==
    [Id |-> Hex(id), Name |-> book.Name, Author |-> book.Author,
     Pages |-> book.Pages, Year |-> book.Year, Isbn |-> book.Isbn]

\* objToComapare that compares the author alone
objToComapareAuthorOnly(book) ==
    [k \in (IF book.Author # "" THEN {"bookauthor"} ELSE {}) |-> book.Author]

\* POST service: the filter of the supplied (non-empty, non-zero) fields.
objToComapare(book) ==
    LET keys == (IF book.Name # "" THEN {"bookname"} ELSE {})
                \cup (IF book.Author # "" THEN {"bookauthor"} ELSE {})
                \cup (IF book.Pages # 0 THEN {"bookpages"} ELSE {})
                \cup (IF book.Year # 0 THEN {"bookyear"} ELSE {})
                \cup (IF book.Isbn # "" THEN {"bookisbn"} ELSE {})
    IN [k \in keys |->
            CASE k = "bookname" -> book.Name
              [] k = "bookauthor" -> book.Author
              [] k = "bookpages" -> book.Pages
              [] k = "bookyear" -> book.Year
              [] k = "bookisbn" -> book.Isbn]

\* PostFound when FindOne reports no document whatever is stored
PostFoundNoDocuments(c, book) == FALSE

\* PostFound that looks for a record equal in all five fields
PostFoundAllFields(c, book) == Find(c, Marshal(ToBookStore(book))) # {}

\* POST service: FindOne(...).Decode returned no error
PostFound(c, book) == Find(c, objToComapare(book)) # {}

\* POST /api/books of the POST service
PostServicePost(body, bound) ==
    /\ Handle("post", "POST", <<>>, body, bound)
    /\ IF ~bound
       THEN /\ resp' = [NoResponse EXCEPT !.status = StatusNotModified,
                                          !.msg = "error in payload conversion "]
            /\ UNCHANGED <<coll, nextId>>
       ELSE IF PostFound(coll, body)
       THEN /\ resp' = [NoResponse EXCEPT !.status = StatusNotModified, !.body = body]
            /\ UNCHANGED <<coll, nextId>>
       ELSE /\ coll' = coll \cup {WithId(Marshal(ToBookStore(body)), nextId)}
            /\ nextId' = nextId + 1
            /\ resp' = [NoResponse EXCEPT !.status = StatusOK,
                                          !.body = ToBookDTO(nextId, body)]
    /\ UNCHANGED <<collExists, bootVars, inflight>>

\* POST /api/books of the POST service, first step: the i-th request is
\* accepted, its body is bound and FindOne runs.  Other requests and other
\* processes may act before the handler goes on.
PostLookup(i, body, bound) ==
    /\ pc["post"] = "serving"
    /\ inflight[i].phase = "idle"
    /\ \A j \in Slots : j < i => inflight[j].phase # "idle"
    /\ IF ~bound
       THEN inflight' = [inflight EXCEPT ![i] =
                [NoInflight EXCEPT !.phase = "done",
                                   !.boot = boots["post"],
                                   !.resp = [NoResponse EXCEPT
                                                !.status = StatusNotModified,
                                                !.msg = "error in payload conversion "]]]
       ELSE inflight' = [inflight EXCEPT ![i] =
                [NoInflight EXCEPT !.phase = "lookedUp",
                                   !.boot = boots["post"],
                                   !.body = body,
                                   !.found = PostFound(coll, body),
                                   !.seen = {d["_id"] : d \in coll}]]
    /\ UNCHANGED <<coll, collExists, nextId, requests, req, resp, bootVars>>

\* POST /api/books of the POST service, second step: the handler answers 304
\* if FindOne had found a record, and otherwise inserts and answers 200.  A
\* request accepted by a process that has since ended is never answered.
PostAnswer(i) ==
    /\ pc["post"] = "serving"
    /\ inflight[i].phase = "lookedUp"
    /\ inflight[i].boot = boots["post"]
    /\ IF inflight[i].found
       THEN /\ inflight' = [inflight EXCEPT
                    ![i].phase = "done",
                    ![i].resp = [NoResponse EXCEPT !.status = StatusNotModified,
                                                   !.body = inflight[i].body]]
            /\ UNCHANGED <<coll, nextId>>
       ELSE /\ coll' = coll \cup {WithId(Marshal(ToBookStore(inflight[i].body)), nextId)}
            /\ nextId' = nextId + 1
            /\ inflight' = [inflight EXCEPT
                    ![i].phase = "done",
                    ![i].id = nextId,
                    ![i].resp = [NoResponse EXCEPT !.status = StatusOK,
                                                   !.body = ToBookDTO(nextId, inflight[i].body)]]
    /\ UNCHANGED <<collExists, requests, req, resp, bootVars>>

\* POST /api/books of the frontend: an insert without a lookup
FrontendPost(body, bound) ==
    /\ Handle("frontend", "POST", <<>>, body, bound)
    /\ IF ~bound
       THEN /\ resp' = [NoResponse EXCEPT !.status = StatusNotModified,
                                          !.msg = "error in payload conversion "]
            /\ UNCHANGED <<coll, nextId>>
       ELSE /\ coll' = coll \cup {WithId(Marshal(ToBookStore(body)), nextId)}
            /\ nextId' = nextId + 1
            /\ resp' = [NoResponse EXCEPT !.status = StatusOK,
                                          !.body = ToBookDTO(nextId, body)]
    /\ UNCHANGED <<collExists, bootVars, inflight>>

\* PutSet without the ISBN
PutSetNoIsbn(b) ==
    [k \in {"BookName", "BookAuthor", "BookPages", "BookYear"} |->
        CASE k = "BookName" -> b.Name
          [] k = "BookAuthor" -> b.Author
          [] k = "BookPages" -> b.Pages
          [] k = "BookYear" -> b.Year]

\* The update document of the PUT handler
PutSet(b) ==
    [k \in {"BookName", "BookAuthor", "BookPages", "BookYear", "BookISBN"} |->
        CASE k = "BookName" -> b.Name
          [] k = "BookAuthor" -> b.Author
          [] k = "BookPages" -> b.Pages
          [] k = "BookYear" -> b.Year
          [] k = "BookISBN" -> b.Isbn]

\* PUT /api/books of the frontend.  The error of ObjectIDFromHex is
\* overwritten by that of UpdateOne.
FrontendPut(body, bound) ==
    /\ Handle("frontend", "PUT", body.Id, body, bound)
    /\ IF ~bound
       THEN /\ resp' = [NoResponse EXCEPT !.status = StatusBadRequest]
            /\ UNCHANGED coll
       ELSE /\ coll' = UpdateOne(coll, ObjectIDFromHex(body.Id).id, PutSet(body))
            /\ resp' = [NoResponse EXCEPT !.status = StatusOK, !.body = body]
    /\ UNCHANGED <<collExists, nextId, bootVars, inflight>>

\* The documents the first DeleteOne of the DELETE handler matches
DeleteFirstMatches(c, id) == Find(c, [k \in {"id"} |-> id])

\* DeleteSecondMatches that matches nothing
DeleteSecondMatchesNone(c, id) == {}

\* The documents its second DeleteOne matches
DeleteSecondMatches(c, id) == {d \in c : MatchesNull(d, id)}

\* DELETE /api/books/:id of the DELETE service and of the frontend.  The
\* error of ObjectIDFromHex is overwritten by that of DeleteOne.  DeleteOne
\* removes the first matching document in storage order, which the storage
\* engine does not fix: any matching document.
Delete(s, id) ==
    /\ Handle(s, "DELETE", id, NoBody, TRUE)
    /\ LET first == DeleteFirstMatches(coll, id)
           second == DeleteSecondMatches(coll, id)
       IN IF first # {}
          THEN /\ \E d \in first : coll' = coll \ {d}
               /\ resp' = [NoResponse EXCEPT !.status = StatusOK,
                                             !.msg = "Book deleted successfully",
                                             !.printed = <<1>>]
          ELSE IF second # {}
          THEN /\ \E d \in second : coll' = coll \ {d}
               /\ resp' = [NoResponse EXCEPT !.status = StatusOK,
                                             !.msg = "Book deleted successfully",
                                             !.printed = <<0, 1>>]
          ELSE /\ coll' = coll
               /\ resp' = [NoResponse EXCEPT !.status = StatusOK,
                                             !.msg = "Book deleted successfully",
                                             !.printed = <<0, 0>>]
    /\ UNCHANGED <<collExists, nextId, bootVars, inflight>>

\* findAllBooks and the BookDTOs GET /api/books builds from it
GetApiBooks(c) ==
    {[Id |-> Hex(b.ID), Name |-> b.BookName, Author |-> b.BookAuthor,
      Pages |-> b.BookPages, Year |-> b.BookYear, Isbn |-> b.BookISBN] :
        b \in {Decode(d) : d \in c}}

\* GET /api/books of the frontend
FrontendGet ==
    /\ pc["frontend"] = "serving"
    /\ req' = [NoRequest EXCEPT !.svc = "frontend", !.method = "GET"]
    /\ resp' = [NoResponse EXCEPT !.status = StatusOK, !.list = GetApiBooks(coll)]
    /\ UNCHANGED <<coll, collExists, nextId, requests, bootVars, inflight>>

Next ==
    \/ \E s \in Services, e \in EnvValues : Start(s, e)
    \/ \E s \in Services : BootFind(s)
    \/ \E s \in Services : BootDecide(s)
    \/ \E body \in PostBodies : PostServicePost(body, TRUE)
    \/ PostServicePost(NoBody, FALSE)
    \/ \E body \in PostBodies : FrontendPost(body, TRUE)
    \/ FrontendPost(NoBody, FALSE)
    \/ \E body \in PutBodies : FrontendPut(body, TRUE)
    \/ \E id \in IdInputs : FrontendPut([Id |-> id] @@ NoBody, FALSE)
    \/ \E s \in {"delete", "frontend"}, id \in IdInputs : Delete(s, id)
    \/ FrontendGet

Spec == Init /\ [][Next]_vars

\* The services start at any time and run their bootstraps side by side,
\* each Find and each InsertOne a step of its own; no requests.
NextBoot ==
    \/ \E s \in Services, e \in EnvValues : StartConcurrent(s, e)
    \/ \E s \in Services : BootFind(s)
    \/ \E s \in Services : BootDecide(s)

SpecBoot == Init /\ [][NextBoot]_vars

\* The services start one after the other and the POST service handles its
\* requests side by side, FindOne and InsertOne each a step of its own.
NextPost ==
    \/ \E s \in Services, e \in EnvValues : Start(s, e)
    \/ \E s \in Services : BootFind(s)
    \/ \E s \in Services : BootDecide(s)
    \/ \E i \in Slots, body \in PostBodies : PostLookup(i, body, TRUE)
    \/ \E i \in Slots : PostLookup(i, NoBody, FALSE)
    \/ \E i \in Slots : PostAnswer(i)

SpecPost == Init /\ [][NextPost]_vars

(***************************************************************************)
(* Properties.                                                             *)
(***************************************************************************)
\* A POST, PUT or DELETE request is handled in this step.
Handled(method) == requests' = requests + 1 /\ req'.method = method

\* The stored fields of document d equal the supplied (non-empty, non-zero)
\* fields of payload p.
PayloadMatches(p, d) ==
    /\ p.Name # "" => d["bookname"] = p.Name
    /\ p.Author # "" => d["bookauthor"] = p.Author
    /\ p.Pages # 0 => d["bookpages"] = p.Pages
    /\ p.Year # 0 => d["bookyear"] = p.Year
    /\ p.Isbn # "" => d["bookisbn"] = p.Isbn

\* The stored fields of document d are those of BookStore b.
SeedExact(d, b) ==
    /\ d["bookname"] = b.BookName
    /\ d["bookauthor"] = b.BookAuthor
    /\ d["bookisbn"] = b.BookISBN
    /\ d["bookpages"] = b.BookPages
    /\ d["bookyear"] = b.BookYear

\* Only process starts have happened, one after the other, and none is
\* under way.
OnlyStartups == requests = 0 /\ \A s \in Services : ~Booting(s)

\* C1: after any sequence of startups of the three services against the
\* initially empty collection, with no request in between, GET lists exactly
\* one book named "The Vortex" of year 1924.
C1_OneVortexAfterStartups ==
    (OnlyStartups /\ \E s \in Services : boots[s] > 0)
        => Cardinality({b \in GetApiBooks(coll) :
                           b.Name = "The Vortex" /\ b.Year = 1924}) = 1

\* C2: when the bootstrap of one service has run twice in sequence against
\* the initially empty collection and nothing else has happened, the
\* collection holds exactly 3 records, the second run has inserted nothing
\* and has not halted the process.
C2_StartupIdempotent ==
    \A s \in Services :
        (OnlyStartups /\ boots[s] = 2 /\ \A t \in Services \ {s} : boots[t] = 0)
            => /\ exitBy[s] # "fatal"
               /\ Cardinality(coll) = 3
               /\ inserted[s] = 0

C2_Witness ==
    \E s \in Services :
        /\ OnlyStartups /\ boots[s] = 2 /\ pc[s] = "serving"
        /\ \A t \in Services \ {s} : boots[t] = 0

\* C3: a DELETE request that carries the identifier of a stored record
\* removes exactly that record, and GET no longer lists the identifier.
C3_DeleteRemovesThatRecord ==
    [][\A d \in coll :
         (Handled("DELETE") /\ req'.id = Hex(d["_id"]))
             => /\ coll' = coll \ {d}
                /\ \A b \in GetApiBooks(coll') : b.Id # req'.id]_vars

\* C4 as claimed: a DELETE request never changes the collection.
C4_DeleteChangesNothing ==
    [][Handled("DELETE") => coll' = coll]_vars

\* C4 as amended: the first delete attempt of a DELETE request removes no
\* record and the request removes at most one; it removes exactly one
\* record, whichever the fallback finds, when the collection is not empty
\* and the identifier is a well-formed ObjectID or the string "abc".
C4_DeleteRemovesSomeRecord ==
    [][Handled("DELETE")
         => /\ resp'.printed[1] = 0
            /\ coll' \subseteq coll
            /\ Cardinality(coll \ coll') <= 1
            /\ (coll # {} /\ (req'.id = NotHex \/ ~ObjectIDFromHex(req'.id).err))
                  => Cardinality(coll \ coll') = 1]_vars

\* A DELETE request has removed a record while the record it names is still
\* stored.
C4_Witness ==
    /\ req.method = "DELETE"
    /\ resp.printed = <<0, 1>>
    /\ \E d \in coll : Hex(d["_id"]) = req.id

\* C5: after a PUT request that carries the identifier of a stored record,
\* GET lists the submitted name, author, pages, year and isbn under that
\* identifier and every other record as before.
C5_PutShowsNewValues ==
    [][\A d \in coll :
         (Handled("PUT") /\ req'.bound /\ req'.id = Hex(d["_id"]))
             => GetApiBooks(coll') =
                    {req'.body} \cup {b \in GetApiBooks(coll) : b.Id # req'.id}]_vars

C5_Witness ==
    /\ req.method = "PUT" /\ req.bound
    /\ req.body \in GetApiBooks(coll)
    /\ \E d \in coll : Hex(d["_id"]) = req.id /\ d["bookname"] # req.body.Name
    /\ Cardinality(coll) > 1

\* C6: a POST request to the POST service whose supplied fields match no
\* stored record adds exactly one record, which carries the submitted
\* fields, leaves the stored records as they are, and answers with status
\* 200 and the new record's identifier, which is not empty and is the
\* identifier of no record stored before.
C6_PostInsertsNovel ==
    [][(Handled("POST") /\ req'.svc = "post" /\ req'.bound
          /\ \A d \in coll : ~PayloadMatches(req'.body, d))
         => /\ resp'.status = StatusOK
            /\ resp'.body = [Id |-> resp'.body.Id, Name |-> req'.body.Name,
                             Author |-> req'.body.Author, Pages |-> req'.body.Pages,
                             Year |-> req'.body.Year, Isbn |-> req'.body.Isbn]
            /\ resp'.body.Id # <<>>
            /\ \A d \in coll : Hex(d["_id"]) # resp'.body.Id
            /\ \E n \in coll' \ coll :
                  /\ coll' = coll \cup {n}
                  /\ Hex(n["_id"]) = resp'.body.Id
                  /\ Decode(n) = [ToBookStore(req'.body) EXCEPT !.ID = n["_id"]]]_vars

C6_Witness ==
    /\ req.svc = "post" /\ req.method = "POST" /\ req.body = BookNovel
    /\ resp.status = StatusOK
    /\ \E d \in coll : Hex(d["_id"]) = resp.body.Id /\ d["bookname"] = "The Last Man"

\* C7: a POST request to the POST service whose supplied fields all equal
\* the stored fields of some record changes nothing and answers with status
\* 304 and the submitted payload, also when only some fields are supplied.
C7_PostDuplicateNoOp ==
    [][(Handled("POST") /\ req'.svc = "post" /\ req'.bound
          /\ \E d \in coll : PayloadMatches(req'.body, d))
         => /\ coll' = coll
            /\ resp'.status = StatusNotModified
            /\ resp'.body = req'.body]_vars

C7_Witness ==
    /\ req.svc = "post" /\ req.method = "POST" /\ req.body = BookAuthorOnly
    /\ resp.status = StatusNotModified
    /\ resp.body = BookAuthorOnly
    /\ Cardinality(coll) = 3

\* C8: a DELETE request whose identifier is no ObjectID hex string is
\* answered with a client-error status.
C8_InvalidIdClientError ==
    (req.method = "DELETE" /\ ObjectIDFromHex(req.id).err)
        => resp.status \in 400..499

\* C9: a process of any service that is started without DATABASE_URI exits
\* nonzero without having opened a database connection.
C9_MissingUriFatal ==
    \A s \in Services :
        (pc[s] # "down" /\ uri[s] = "")
            => pc[s] = "exited" /\ exitBy[s] = "env" /\ ~connected[s]

\* C10: the bootstrap probes each seed record by equality of its five
\* fields; after zero matches it inserts the seed record, after one match it
\* leaves the collection as it is, after more it halts the process, which
\* inserts nothing further and never serves.
C10_SeedProbe ==
    [][\A s \in Services :
         LET book == StartData(s)[seedIdx[s]]
         IN /\ (pc[s] = "find" /\ pc'[s] = "decide")
                 => /\ results'[s] = Cardinality({d \in coll : SeedExact(d, book)})
                    /\ coll' = coll
            /\ (pc[s] = "decide" /\ pc'[s] # "decide" /\ results[s] = 0)
                 => /\ pc'[s] \in {"find", "serving"}
                    /\ \E n \in coll' \ coll : coll' = coll \cup {n} /\ SeedExact(n, book)
            /\ (pc[s] = "decide" /\ pc'[s] # "decide" /\ results[s] = 1)
                 => pc'[s] \in {"find", "serving"} /\ coll' = coll
            /\ (pc[s] = "decide" /\ pc'[s] # "decide" /\ results[s] > 1)
                 => pc'[s] = "exited" /\ exitBy'[s] = "fatal" /\ coll' = coll
            /\ (pc[s] = "exited" /\ exitBy[s] = "fatal" /\ boots'[s] = boots[s])
                 => pc'[s] = "exited" /\ inserted'[s] = inserted[s]]_vars

C10_Witness ==
    \E s \in Services : pc[s] = "exited" /\ exitBy[s] = "fatal" /\ results[s] > 1

\* C11: a PUT request whose identifier is malformed (the zero ObjectID is
\* used) or is the identifier of no stored record changes nothing in the
\* collection and is answered with status 200 and the submitted payload.
C11_PutWithoutMatch ==
    [][(Handled("PUT") /\ req'.bound
          /\ (ObjectIDFromHex(req'.id).err \/ \A d \in coll : Hex(d["_id"]) # req'.id))
         => /\ coll' = coll
            /\ resp'.status = StatusOK
            /\ resp'.body = req'.body]_vars

\* A PUT request with a well-formed identifier that no stored record has was
\* answered with status 200.
C11_Witness ==
    /\ req.method = "PUT" /\ req.bound
    /\ ~ObjectIDFromHex(req.id).err
    /\ coll # {}
    /\ \A d \in coll : Hex(d["_id"]) # req.id
    /\ resp.status = StatusOK /\ resp.body = req.body

\* A PUT request with a malformed identifier was answered with status 200.
C11_WitnessMalformed ==
    /\ req.method = "PUT" /\ req.bound
    /\ ObjectIDFromHex(req.id).err
    /\ coll # {}
    /\ resp.status = StatusOK

\* The stored documents equal to seed record number i of service s.
SeedCopies(s, i) == {d \in coll : SeedExact(d, StartData(s)[i])}

\* C13: whatever POST, PUT and DELETE requests the services have handled
\* since the bootstrap, no seed record has more than one exact-field match,
\* and no restarted service halts in its bootstrap.
C13_SeedsStayUnique ==
    /\ \A s \in Services : \A i \in 1..Len(StartData(s)) :
           Cardinality(SeedCopies(s, i)) <= 1
    /\ \A s \in Services : exitBy[s] # "fatal"

\* Services s and t have each run the bootstrap once, against the initially
\* empty collection, in any interleaving, and nothing else has happened.
BothBooted(s, t) ==
    /\ s # t
    /\ boots[s] = 1 /\ boots[t] = 1
    /\ \A u \in Services \ {s, t} : boots[u] = 0
    /\ requests = 0
    /\ ~Booting(s) /\ ~Booting(t)

\* C12 as claimed: after two services have run the bootstrap side by side,
\* the collection holds exactly one copy of each of their seed records and
\* neither process has halted.
C12_OneCopyOfEachSeed ==
    \A s, t \in Services :
        BothBooted(s, t)
            => /\ \A i \in 1..Len(StartData(s)) : Cardinality(SeedCopies(s, i)) = 1
               /\ exitBy[s] # "fatal" /\ exitBy[t] # "fatal"

\* C12 as amended: after two services have run the bootstrap side by side,
\* the collection holds one or two copies of each of their seed records, no
\* more than one from each process, and neither process has halted.
C12_OneOrTwoCopies ==
    \A s, t \in Services :
        BothBooted(s, t)
            => /\ \A i \in 1..Len(StartData(s)) : Cardinality(SeedCopies(s, i)) \in {1, 2}
               /\ inserted[s] <= Len(StartData(s))
               /\ Cardinality(coll) = inserted[s] + inserted[t]
               /\ exitBy[s] # "fatal" /\ exitBy[t] # "fatal"

\* Two services have finished side-by-side bootstraps, both serve, and a seed
\* record is stored twice.
C12_Witness ==
    \E s, t \in Services :
        /\ BothBooted(s, t)
        /\ pc[s] = "serving" /\ pc[t] = "serving"
        /\ \E i \in 1..Len(StartData(s)) : Cardinality(SeedCopies(s, i)) = 2

\* The requests that created a record through the POST service, and the
\* record each created.
Posted == {i \in Slots : inflight[i].id # NilObjectID}
PostedDoc(i) == Marshal(ToBookStore(inflight[i].body))

\* C14 as claimed: under any interleaving of the POST requests of the POST
\* service, no two records created through it are equal in all five fields.
C14_NoIdenticalPosted ==
    \A i, j \in Posted : i # j => PostedDoc(i) # PostedDoc(j)

\* C14 as amended: two records created through the POST service are equal in
\* all five fields only if the requests overlapped, neither record being
\* stored yet when the other request ran its lookup; each request creates at
\* most one record, and none if its lookup found a match.
C14_IdenticalOnlyWhenOverlapping ==
    /\ \A i, j \in Posted :
           (i # j /\ PostedDoc(i) = PostedDoc(j))
               => /\ inflight[i].id \notin inflight[j].seen
                  /\ inflight[j].id \notin inflight[i].seen
    /\ \A i \in Posted :
           /\ ~inflight[i].found
           /\ inflight[i].resp.status = StatusOK
           /\ Cardinality({d \in coll : d["_id"] = inflight[i].id}) = 1
    /\ Cardinality(Posted) <= MaxInflight

\* Two overlapping POST requests with the same payload have both been answered
\* 200 and both records are stored.
C14_Witness ==
    \E i, j \in Posted :
        /\ i # j
        /\ PostedDoc(i) = PostedDoc(j)
        /\ inflight[i].resp.status = StatusOK /\ inflight[j].resp.status = StatusOK
        /\ WithId(PostedDoc(i), inflight[i].id) \in coll
        /\ WithId(PostedDoc(j), inflight[j].id) \in coll

=============================================================================
